---- MODULE Spec2Model ----
(***************************************************************************)
(* Model of pyscan.py, the "Smart Project Inspector": a directory walk     *)
(* that collects *.py files, a line counter, a syntax check built on       *)
(* py_compile, an undefined-name detector built on an ast.NodeVisitor and  *)
(* the main() loop that aggregates the per-file findings.                  *)
(*                                                                         *)
(* Text (file names, identifiers, dotted module names) is a sequence of    *)
(* one-character strings, so that endswith, startswith, split and the      *)
(* substring test are computed character by character.                     *)
(***************************************************************************)
EXTENDS Integers, Sequences, FiniteSets, TLC

VARIABLES fs, pycache, pc, files, total_files, total_lines, errors, i,
          out, calls, run, prev

vars == <<fs, pycache, pc, files, total_files, total_lines, errors, i,
          out, calls, run, prev>>

(***************************************************************************)
(* Bounds of the model.                                                    *)
(***************************************************************************)
MaxFiles == 2
MaxRuns == 2

(***************************************************************************)
(* Sequence and text helpers.                                              *)
(***************************************************************************)
Range(s) == {s[k] : k \in 1..Len(s)}

RECURSIVE Concat(_)
Concat(ss) == IF ss = <<>> THEN <<>> ELSE Head(ss) \o Concat(Tail(ss))

RECURSIVE SumSeq(_)
SumSeq(s) == IF s = <<>> THEN 0 ELSE Head(s) + SumSeq(Tail(s))

Perms(S) == {p \in [1..Cardinality(S) -> S] : \A a, b \in 1..Cardinality(S) : p[a] = p[b] => a = b}

\* suffix in s: the substring test, in place of str.endswith
Contains(s, suffix) ==
    \E k \in 0..(Len(s) - Len(suffix)) : SubSeq(s, k + 1, k + Len(suffix)) = suffix

\* str.endswith(suffix)
EndsWith(s, suffix) ==
    /\ Len(s) >= Len(suffix)
    /\ SubSeq(s, Len(s) - Len(suffix) + 1, Len(s)) = suffix

\* str.startswith(prefix)
StartsWith(s, prefix) ==
    /\ Len(s) >= Len(prefix)
    /\ SubSeq(s, 1, Len(prefix)) = prefix

\* s.split(sep)[0]: the text before the first occurrence of the character sep
SplitFirst(s, sep) ==
    IF \E k \in 1..Len(s) : s[k] = sep
    THEN SubSeq(s, 1, (CHOOSE k \in 1..Len(s) : s[k] = sep /\ \A j \in 1..(k - 1) : s[j] # sep) - 1)
    ELSE s

\* s.rpartition(sep)[0]: the text before the last occurrence of sep
RPartitionHead(s, sep) ==
    IF \E k \in 1..Len(s) : s[k] = sep
    THEN SubSeq(s, 1, (CHOOSE k \in 1..Len(s) : s[k] = sep /\ \A j \in (k + 1)..Len(s) : s[j] # sep) - 1)
    ELSE <<>>

PyExt == <<".", "p", "y">>
DunderPrefix == <<"_", "_">>
Dot == "."

\* importlib.util.cache_from_source: <stem>.<implementation tag>.pyc
CacheTag == <<".", "c", "p", "y", "t", "h", "o", "n", "-", "3", "1", "1", ".", "p", "y", "c">>
CacheName(name) == RPartitionHead(name, Dot) \o CacheTag
CacheDir(dir) == dir \o <<"__pycache__">>

(***************************************************************************)
(* Identifiers that occur in the sample programs.                          *)
(***************************************************************************)
id_x == <<"x">>
id_y == <<"y">>
id_f == <<"f">>
id_m == <<"m">>
id_os == <<"o", "s">>
id_os_path == <<"o", "s", ".", "p", "a", "t", "h">>
id_np == <<"n", "p">>
id_numpy == <<"n", "u", "m", "p", "y">>
id_Foo == <<"F", "o", "o">>
id_print == <<"p", "r", "i", "n", "t">>
id_len == <<"l", "e", "n">>
id_lprint == <<"l", "p", "r", "i", "n", "t">>
id_pritn == <<"p", "r", "i", "t", "n">>
id_datta == <<"d", "a", "t", "t", "a">>
id_name == <<"_", "_", "n", "a", "m", "e", "_", "_">>
id_keys == <<"k", "e", "y", "s">>
id_get == <<"g", "e", "t">>

\* dir(__builtins__) where __builtins__ is the dict CPython gives an imported
\* module: the attribute names of dict, not the built-in names.
DictAttributeNames == {id_keys, id_get}

\* dir(__builtins__) when pyscan.py runs as the __main__ script: __builtins__
\* is the builtins module.  (A sample of the namespace.)
BuiltinNames == {id_print, id_len}

(***************************************************************************)
(* Grammar tree nodes (ast).                                               *)
(***************************************************************************)
Node(kind, name, ctx, names, targets, children) ==
    [kind |-> kind, name |-> name, ctx |-> ctx, names |-> names,
     targets |-> targets, children |-> children]

alias(name, asname) == [name |-> name, asname |-> asname]
NoAsname == <<>>

Name(id, ctx) == Node("Name", id, ctx, <<>>, <<>>, <<>>)
Load(id) == Name(id, "Load")
Store(id) == Name(id, "Store")
FunctionDef(name, body) == Node("FunctionDef", name, "", <<>>, <<>>, body)
ClassDef(name, body) == Node("ClassDef", name, "", <<>>, <<>>, body)
Assign(targets, value) == Node("Assign", <<>>, "", <<>>, targets, <<value>>)
Import(names) == Node("Import", <<>>, "", names, <<>>, <<>>)
ImportFrom(module, names) == Node("ImportFrom", module, "", names, <<>>, <<>>)
OtherNode(kind, children) == Node(kind, <<>>, "", <<>>, <<>>, children)
Constant == OtherNode("Constant", <<>>)
Call(func, args) == OtherNode("Call", <<func>> \o args)
Expr(value) == OtherNode("Expr", <<value>>)
Module(body) == OtherNode("Module", body)

(***************************************************************************)
(* Sample file contents.  text is the file's characters in chunks, a chunk *)
(* being either the newline "\n" or a run of other characters; compile is  *)
(* what py_compile's source_to_code does with the bytes ("ok", or the      *)
(* class of the exception py_compile wraps in PyCompileError); parses is   *)
(* whether ast.parse accepts the text decoded with errors="ignore"; tree   *)
(* is the grammar tree ast.parse then returns.                             *)
(***************************************************************************)
NL == "\n"

File(readable, text, compile, lineno, msg, parses, tree) ==
    [readable |-> readable, text |-> text, compile |-> compile, lineno |-> lineno,
     msg |-> msg, parses |-> parses, tree |-> tree]

Source(text, tree) == File(TRUE, text, "ok", 0, "", TRUE, tree)

Contents ==
    [clean |-> Source(<<"x = 1", NL, "print(len(x))", NL>>,
        Module(<<Assign(<<Store(id_x)>>, Constant),
                 Expr(Call(Load(id_print), <<Call(Load(id_len), <<Load(id_x)>>)>>))>>)),
     empty |-> Source(<<>>, Module(<<>>)),
     typo |-> Source(<<"x = 1", NL, "lprint(x)">>,
        Module(<<Assign(<<Store(id_x)>>, Constant),
                 Expr(Call(Load(id_lprint), <<Load(id_x)>>))>>)),
     two |-> Source(<<"pritn(datta)", NL>>,
        Module(<<Expr(Call(Load(id_pritn), <<Load(id_datta)>>))>>)),
     class |-> Source(<<"class Foo:", NL, "    pass", NL, "Foo()", NL>>,
        Module(<<ClassDef(id_Foo, <<OtherNode("Pass", <<>>)>>),
                 Expr(Call(Load(id_Foo), <<>>))>>)),
     func |-> Source(<<"def f():", NL, "    return __name__", NL, "f()", NL>>,
        Module(<<FunctionDef(id_f, <<OtherNode("Return", <<Load(id_name)>>)>>),
                 Expr(Call(Load(id_f), <<>>))>>)),
     nested |-> Source(<<"def f():", NL, "    y = 1", NL, "print(y)", NL>>,
        Module(<<FunctionDef(id_f, <<Assign(<<Store(id_y)>>, Constant)>>),
                 Expr(Call(Load(id_print), <<Load(id_y)>>))>>)),
     import |-> Source(<<"import os.path", NL, "print(os)", NL>>,
        Module(<<Import(<<alias(id_os_path, NoAsname)>>),
                 Expr(Call(Load(id_print), <<Load(id_os)>>))>>)),
     aliased |-> Source(<<"import numpy as np", NL, "print(np)", NL>>,
        Module(<<Import(<<alias(id_numpy, id_np)>>),
                 Expr(Call(Load(id_print), <<Load(id_np)>>))>>)),
     from |-> Source(<<"from m import x", NL, "print(x)", NL>>,
        Module(<<ImportFrom(id_m, <<alias(id_x, NoAsname)>>),
                 Expr(Call(Load(id_print), <<Load(id_x)>>))>>)),
     \* an unmatched opening bracket: SyntaxError at line 1
     syntax |-> File(TRUE, <<"x = (1,", NL>>, "SyntaxError", 1, "'(' was never closed",
                     FALSE, Module(<<>>)),
     \* x = 1+1+...+1 with 200000 terms: the compiler raises RecursionError
     deep |-> File(TRUE, <<"x = 1+1+ ... +1", NL>>, "RecursionError", 0, "",
                   FALSE, Module(<<>>)),
     \* a coding: latin-1 file with a non-ASCII identifier: it compiles, and
     \* the utf-8 text with the undecodable bytes ignored does not parse
     latin |-> File(TRUE, <<"# -*- coding: latin-1 -*-", NL, " = 1", NL, "print()", NL>>,
                    "ok", 0, "", FALSE, Module(<<>>)),
     \* a dangling symbolic link, or a file without read permission
     unreadable |-> File(FALSE, <<>>, "ok", 0, "", FALSE, Module(<<>>)),
     \* a byte-code file py_compile wrote
     pyc |-> File(TRUE, <<"bytecode">>, "SyntaxError", 0,
                  "source code string cannot contain null bytes", FALSE, Module(<<>>))]

PyKinds == {"clean", "empty", "typo", "two", "class", "func", "nested", "import",
            "aliased", "from", "syntax", "deep", "latin", "unreadable"}

(***************************************************************************)
(* The file system below the project folder: the directories in the order  *)
(* os.walk yields them, each with its directory entries in scandir order.  *)
(* pycache[d] lists the files of directory d's __pycache__ subdirectory.   *)
(***************************************************************************)
DirPaths == <<<<"proj">>, <<"proj", "sub">>>>
Dirs == DOMAIN DirPaths

Digit == <<"1", "2", "3", "4", "5">>
Stem(k) == <<"f", Digit[k]>>
OtherExts == {<<".", "t", "x", "t">>, <<".", "p", "y", "c">>}

\* the k-th entry of a directory: a Python source file of some kind, or a
\* file of another extension
EntriesAt(k) ==
    {[name |-> Stem(k) \o PyExt, kind |-> c] : c \in PyKinds}
        \cup {[name |-> Stem(k) \o e, kind |-> "clean"] : e \in OtherExts}

RECURSIVE Listings(_)
Listings(n) ==
    IF n = 0 THEN {<<>>}
    ELSE {Append(l, e) : l \in Listings(n - 1), e \in EntriesAt(n)}

\* the trees with at most MaxFiles files in all
Trees ==
    UNION {{<<l1, l2>> : l1 \in Listings(n[1]), l2 \in Listings(n[2])} :
              n \in {m \in (0..MaxFiles) \X (0..MaxFiles) : m[1] + m[2] <= MaxFiles}}

path(dir, name) == [dir |-> dir, name |-> name]

\* the kind of content at a path ("missing" when nothing is there)
KindAt(p) ==
    IF \E d \in Dirs : DirPaths[d] = p.dir /\ \E k \in 1..Len(fs[d]) : fs[d][k].name = p.name
    THEN LET d == CHOOSE d \in Dirs : DirPaths[d] = p.dir
             k == CHOOSE k \in 1..Len(fs[d]) : fs[d][k].name = p.name
         IN fs[d][k].kind
    ELSE IF \E d \in Dirs : CacheDir(DirPaths[d]) = p.dir /\ p.name \in Range(pycache[d])
    THEN "pyc"
    ELSE "unreadable"

ContentAt(p) == Contents[KindAt(p)]

\* os.walk(folder), top-down: (root, files) per directory
Walk ==
    Concat([d \in Dirs |->
        <<[root |-> DirPaths[d], files |-> [k \in 1..Len(fs[d]) |-> fs[d][k].name]]>>
        \o (IF pycache[d] = <<>> THEN <<>>
            ELSE <<[root |-> CacheDir(DirPaths[d]), files |-> pycache[d]]>>)])

(***************************************************************************)
(* get_python_files                                                        *)
(***************************************************************************)
\* the inner loop: the names of one directory that end with ".py", joined
\* to the directory
RECURSIVE PyFilesIn(_, _)
PyFilesIn(root, names) ==
    IF names = <<>> THEN <<>>
    ELSE (IF EndsWith(Head(names), PyExt) THEN <<path(root, Head(names))>> ELSE <<>>)
         \o PyFilesIn(root, Tail(names))

\* only the top directory is listed (os.listdir in place of os.walk)
get_python_files_top_only(walk) ==
    IF walk = <<>> THEN <<>> ELSE PyFilesIn(walk[1].root, walk[1].files)

get_python_files(walk) ==
    Concat([k \in 1..Len(walk) |-> PyFilesIn(walk[k].root, walk[k].files)])

(***************************************************************************)
(* count_lines                                                             *)
(***************************************************************************)
\* len(f.readlines()): every newline ends a line, and so does the end of
\* the text after a last line without one
ReadLines(text) ==
    Cardinality({k \in 1..Len(text) : text[k] = NL})
        + (IF text # <<>> /\ text[Len(text)] # NL THEN 1 ELSE 0)

count_lines(file_path) ==
    IF ContentAt(file_path).readable THEN ReadLines(ContentAt(file_path).text) ELSE 0

(***************************************************************************)
(* Results of the functions that can raise: exc is "" on a normal return   *)
(* and the exception's class otherwise; value is what is returned.         *)
(***************************************************************************)
Returns(v) == [exc |-> "", value |-> v]
Raises(e) == [exc |-> e, value |-> <<>>]

IntLine(n) == <<"int", n>>
UnknownLine == <<"str", "?">>
Diagnostic(file, line, text, names) ==
    [file |-> file, line |-> line, message |-> [text |-> text, names |-> names]]

(***************************************************************************)
(* check_syntax: None is <<>>, a diagnostic d is <<d>>                     *)
(***************************************************************************)
check_syntax(file_path) ==
    LET c == ContentAt(file_path) IN
    IF ~c.readable
    THEN Raises("OSError")             \* loader.get_data, outside py_compile's try
    ELSE IF c.compile = "ok"
    THEN Returns(<<>>)
    ELSE IF c.compile = "SyntaxError"
    THEN Returns(<<Diagnostic(file_path, IntLine(c.lineno), c.msg, <<>>)>>)
    ELSE Raises("AttributeError")      \* err.lineno of an exception that has none

(***************************************************************************)
(* find_undefined_names                                                    *)
(***************************************************************************)
NoNames == [defined |-> {}, used |-> {}]
Merge(a, b) == [defined |-> a.defined \cup b.defined, used |-> a.used \cup b.used]

RECURSIVE visit(_), visit_all(_)

\* NodeVisitor.generic_visit: visit every child node, field by field
generic_visit(node) == visit_all(node.targets \o node.children)

visit_FunctionDef(node) ==
    Merge([defined |-> {node.name}, used |-> {}], generic_visit(node))

visit_Assign(node) ==
    Merge([defined |-> {t.name : t \in {u \in Range(node.targets) : u.kind = "Name"}},
           used |-> {}],
          generic_visit(node))

visit_Import(node) ==
    [defined |-> {SplitFirst(n.name, Dot) : n \in Range(node.names)}, used |-> {}]

visit_ImportFrom(node) ==
    [defined |-> {n.name : n \in Range(node.names)}, used |-> {}]

visit_Name(node) ==
    [defined |-> {}, used |-> IF node.ctx = "Load" THEN {node.name} ELSE {}]

visit(node) ==
    CASE node.kind = "FunctionDef" -> visit_FunctionDef(node)
      [] node.kind = "Assign" -> visit_Assign(node)
      [] node.kind = "Import" -> visit_Import(node)
      [] node.kind = "ImportFrom" -> visit_ImportFrom(node)
      [] node.kind = "Name" -> visit_Name(node)
      [] OTHER -> generic_visit(node)

visit_all(nodes) ==
    IF nodes = <<>> THEN NoNames ELSE Merge(visit(Head(nodes)), visit_all(Tail(nodes)))

\* the names the final loop keeps
UndefinedIn(sets) ==
    {name \in sets.used :
        /\ name \notin sets.defined
        /\ name \notin BuiltinNames
        /\ ~StartsWith(name, DunderPrefix)}

\* The results the call can have: the list is built by iterating a set of
\* strings, whose order changes with the interpreter's hash seed.
find_undefined_names(file_path) ==
    LET c == ContentAt(file_path) IN
    IF ~c.readable THEN {Raises("OSError")}
    ELSE IF ~c.parses THEN {Returns(<<>>)}
    ELSE {Returns(l) : l \in Perms(UndefinedIn(visit(c.tree)))}

(***************************************************************************)
(* analyze_file: the outcomes the call can have, each with the calls it    *)
(* made (function, argument, result) in order.                             *)
(***************************************************************************)
CallOf(fn, arg, result) == [fn |-> fn, arg |-> arg, result |-> result]

Outcome(result, made) == [exc |-> result.exc, value |-> result.value, made |-> made]

\* one diagnostic per undefined name, in place of one for the file
UndefinedResultsPerName(file_path, undefined) ==
    [k \in 1..Len(undefined) |->
        Diagnostic(file_path, UnknownLine, "Undefined names: ", <<undefined[k]>>)]

\* the results list after the undefined-name check
UndefinedResults(file_path, undefined) ==
    IF undefined # <<>>
    THEN <<Diagnostic(file_path, UnknownLine, "Undefined names: ", undefined)>>
    ELSE <<>>

\* analyze_file without the return after the syntax diagnostic
analyze_file_no_return(file_path) ==
    LET syntax == check_syntax(file_path)
        c1 == CallOf("check_syntax", file_path, syntax)
    IN  IF syntax.exc # "" THEN {Outcome(Raises(syntax.exc), <<c1>>)}
        ELSE {IF u.exc # ""
              THEN Outcome(Raises(u.exc), <<c1, CallOf("find_undefined_names", file_path, u)>>)
              ELSE Outcome(Returns(syntax.value \o UndefinedResults(file_path, u.value)),
                           <<c1, CallOf("find_undefined_names", file_path, u)>>) :
              u \in find_undefined_names(file_path)}

analyze_file(file_path) ==
    LET syntax == check_syntax(file_path)
        c1 == CallOf("check_syntax", file_path, syntax)
    IN  IF syntax.exc # "" THEN {Outcome(Raises(syntax.exc), <<c1>>)}
        ELSE IF syntax.value # <<>> THEN {Outcome(Returns(syntax.value), <<c1>>)}
        ELSE {IF u.exc # ""
              THEN Outcome(Raises(u.exc), <<c1, CallOf("find_undefined_names", file_path, u)>>)
              ELSE Outcome(Returns(UndefinedResults(file_path, u.value)),
                           <<c1, CallOf("find_undefined_names", file_path, u)>>) :
              u \in find_undefined_names(file_path)}

(***************************************************************************)
(* main                                                                    *)
(***************************************************************************)
project_path == path(DirPaths[1], <<>>)

\* main without the early return
NeverNoFiles(fl) == FALSE

\* if not files:
NoFilesFound(fl) == fl = <<>>

\* for p in problems: errors.append(p), the problems put in front instead
PrependProblems(errs, problems) == problems \o errs

\* for p in problems: errors.append(p)
AppendProblems(errs, problems) == errs \o problems

NoFilesMessage == [what |-> "No Python files found."]
Summary == [what |-> "Summary", file_count |-> total_files, total_lines |-> total_lines,
            issues |-> Len(errors), diagnostics |-> errors]

\* py_compile writes the byte code of a file it compiled into __pycache__
CacheAfter(file_path, made) ==
    IF made[1].result = Returns(<<>>) /\ \E d \in Dirs : DirPaths[d] = file_path.dir
    THEN LET d == CHOOSE d \in Dirs : DirPaths[d] = file_path.dir IN
         IF CacheName(file_path.name) \in Range(pycache[d]) THEN pycache
         ELSE [pycache EXCEPT ![d] = Append(@, CacheName(file_path.name))]
    ELSE pycache

Init ==
    /\ fs \in Trees
    /\ pycache = <<<<>>, <<>>>>
    /\ pc = "start"
    /\ files = <<>>
    /\ total_files = 0
    /\ total_lines = 0
    /\ errors = <<>>
    /\ i = 0
    /\ out = <<>>
    /\ calls = <<>>
    /\ run = 1
    /\ prev = <<>>

\* Step 2 and the start of step 3: find the files; return when there are none
Discover ==
    /\ pc = "start"
    /\ files' = get_python_files(Walk)
    /\ calls' = Append(calls, CallOf("get_python_files", project_path, Returns(files')))
    /\ IF NoFilesFound(files')
       THEN /\ out' = <<NoFilesMessage>>
            /\ pc' = "done"
            /\ UNCHANGED <<total_files, total_lines, i>>
       ELSE /\ total_files' = Len(files')
            /\ total_lines' = 0
            /\ i' = 1
            /\ pc' = "count"
            /\ UNCHANGED out
    /\ UNCHANGED <<fs, pycache, errors, run, prev>>

\* one iteration of the loop of step 3
CountLines ==
    /\ pc = "count"
    /\ i <= Len(files)
    /\ total_lines' = total_lines + count_lines(files[i])
    /\ calls' = Append(calls, CallOf("count_lines", files[i], Returns(count_lines(files[i]))))
    /\ i' = i + 1
    /\ UNCHANGED <<fs, pycache, pc, files, total_files, errors, out, run, prev>>

\* the loop of step 3 ends; step 4 starts
CountDone ==
    /\ pc = "count"
    /\ i > Len(files)
    /\ errors' = <<>>
    /\ i' = 1
    /\ pc' = "analyze"
    /\ UNCHANGED <<fs, pycache, files, total_files, total_lines, out, calls, run, prev>>

\* one iteration of the loop of step 4, analyze_file returning
Analyze ==
    /\ pc = "analyze"
    /\ i <= Len(files)
    /\ \E o \in analyze_file(files[i]) :
        /\ o.exc = ""
        /\ errors' = AppendProblems(errors, o.value)
        /\ calls' = calls \o o.made \o <<CallOf("analyze_file", files[i], Returns(o.value))>>
        /\ pycache' = CacheAfter(files[i], o.made)
    /\ i' = i + 1
    /\ UNCHANGED <<fs, pc, files, total_files, total_lines, out, run, prev>>

\* one iteration of the loop of step 4, analyze_file raising: nothing in
\* main catches the exception and the program ends with a traceback
AnalyzeRaises ==
    /\ pc = "analyze"
    /\ i <= Len(files)
    /\ \E o \in analyze_file(files[i]) :
        /\ o.exc # ""
        /\ calls' = calls \o o.made \o <<CallOf("analyze_file", files[i], Raises(o.exc))>>
        /\ pycache' = CacheAfter(files[i], o.made)
    /\ pc' = "crashed"
    /\ UNCHANGED <<fs, files, total_files, total_lines, errors, i, out, run, prev>>

\* steps 5 and 6: the summary and the details
Report ==
    /\ pc = "analyze"
    /\ i > Len(files)
    /\ out' = <<Summary>>
    /\ pc' = "done"
    /\ UNCHANGED <<fs, pycache, files, total_files, total_lines, errors, i, calls, run, prev>>

\* the program is started again on the same folder
Rescan ==
    /\ pc \in {"done", "crashed"}
    /\ run < MaxRuns
    /\ prev' = out
    /\ run' = run + 1
    /\ pc' = "start"
    /\ files' = <<>>
    /\ total_files' = 0
    /\ total_lines' = 0
    /\ errors' = <<>>
    /\ i' = 0
    /\ out' = <<>>
    /\ calls' = <<>>
    /\ UNCHANGED <<fs, pycache>>

Next ==
    \/ Discover
    \/ CountLines
    \/ CountDone
    \/ Analyze
    \/ AnalyzeRaises
    \/ Report

Spec == Init /\ [][Next]_vars

NextRerun ==
    \/ Discover
    \/ CountLines
    \/ CountDone
    \/ Analyze
    \/ AnalyzeRaises
    \/ Report
    \/ Rescan

SpecRerun == Init /\ [][NextRerun]_vars

(***************************************************************************)
(* Properties                                                              *)
(***************************************************************************)
IsCall(k, fn) == calls[k].fn = fn
Returned(k) == calls[k].result.exc = ""
CallIndex == 1..Len(calls)

\* every path of the tree, in walk order, and those whose name ends ".py"
WalkedPaths ==
    Concat([k \in 1..Len(Walk) |->
        [j \in 1..Len(Walk[k].files) |-> path(Walk[k].root, Walk[k].files[j])]])
MatchingPaths == SelectSeq(WalkedPaths, LAMBDA p : EndsWith(p.name, PyExt))

AnalyzeCalls == SelectSeq(calls, LAMBDA c : c.fn = "analyze_file")
HasSummary == pc = "done" /\ out # <<>> /\ out[1].what = "Summary"

\* C1: a file whose check_syntax returns a diagnostic never reaches
\* find_undefined_names and its analyze_file result is exactly that
\* diagnostic; find_undefined_names runs only after check_syntax returned no
\* diagnostic for the same file.
C1_SyntaxGate ==
    \A k \in CallIndex :
        /\ IsCall(k, "find_undefined_names") =>
              \E j \in 1..(k - 1) :
                  /\ IsCall(j, "check_syntax")
                  /\ calls[j].arg = calls[k].arg
                  /\ Returned(j)
                  /\ calls[j].result.value = <<>>
        /\ (IsCall(k, "check_syntax") /\ Returned(k) /\ calls[k].result.value # <<>>) =>
              /\ \A j \in CallIndex :
                    IsCall(j, "find_undefined_names") => calls[j].arg # calls[k].arg
              /\ k < Len(calls)
              /\ IsCall(k + 1, "analyze_file")
              /\ calls[k + 1].arg = calls[k].arg
              /\ Returned(k + 1)
              /\ calls[k + 1].result.value = calls[k].result.value

C1_Witness ==
    /\ pc = "done"
    /\ \E k \in CallIndex :
          IsCall(k, "check_syntax") /\ Returned(k) /\ calls[k].result.value # <<>>
    /\ \E k \in CallIndex : IsCall(k, "find_undefined_names")

\* C2: analyze_file returns at most one diagnostic: none for a clean file,
\* the syntax diagnostic for a file that does not compile, and otherwise one
\* diagnostic with the unknown line that lists every undefined name.
C2_AtMostOneDiagnostic ==
    \A k \in CallIndex :
        (IsCall(k, "analyze_file") /\ Returned(k)) =>
            LET c == ContentAt(calls[k].arg)
                v == calls[k].result.value
                U == IF c.parses THEN UndefinedIn(visit(c.tree)) ELSE {}
            IN  /\ Len(v) <= 1
                /\ c.compile = "SyntaxError" =>
                      v = <<Diagnostic(calls[k].arg, IntLine(c.lineno), c.msg, <<>>)>>
                /\ (c.compile = "ok" /\ U = {}) => v = <<>>
                /\ (c.compile = "ok" /\ U # {}) =>
                      /\ Len(v) = 1
                      /\ v[1].file = calls[k].arg
                      /\ v[1].line = UnknownLine
                      /\ Range(v[1].message.names) = U

C2_Witness ==
    /\ pc = "done"
    /\ \E k \in CallIndex :
          /\ IsCall(k, "analyze_file")
          /\ Returned(k)
          /\ Len(calls[k].result.value) = 1
          /\ Len(calls[k].result.value[1].message.names) = 2

\* C3: once the counting loop has run, file_count is the number of files of
\* the walk whose name ends with ".py" and total_lines is the sum of their
\* line counts, files that fail the syntax check included and unreadable
\* files counting 0; the summary reports these two numbers.
C3_Counts ==
    LET M == MatchingPaths
        L == [k \in 1..Len(M) |-> count_lines(M[k])]
    IN  /\ pc = "count" =>
              /\ total_files = Len(M)
              /\ total_lines = SumSeq(SubSeq(L, 1, i - 1))
        /\ pc \in {"analyze", "crashed"} =>
              /\ total_files = Len(M)
              /\ total_lines = SumSeq(L)
        /\ HasSummary =>
              /\ out[1].file_count = Len(M)
              /\ out[1].total_lines = SumSeq(L)
        /\ \A k \in 1..Len(M) : ~ContentAt(M[k]).readable => L[k] = 0

C3_Witness ==
    /\ HasSummary
    /\ \E k \in 1..Len(files) : ContentAt(files[k]).compile = "SyntaxError"
    /\ \E k \in 1..Len(files) : files[k].dir = DirPaths[2]
    /\ out[1].total_lines > 1
    /\ Len(WalkedPaths) > out[1].file_count

\* C4: for a file that parses, find_undefined_names returns the used names
\* that are neither bound nor built-in nor start with a double underscore,
\* each once; analyze_file has no diagnostic exactly when there is none.
RuntimeBuiltins == {id_print, id_len}

ExpectedUndefined(tree) ==
    {n \in (visit(tree).used \ visit(tree).defined) \ RuntimeBuiltins :
        ~(Len(n) >= 2 /\ n[1] = "_" /\ n[2] = "_")}

C4_UndefinedSet ==
    \A k \in CallIndex :
        (IsCall(k, "find_undefined_names") /\ Returned(k) /\ ContentAt(calls[k].arg).parses) =>
            LET E == ExpectedUndefined(ContentAt(calls[k].arg).tree) IN
            /\ Range(calls[k].result.value) = E
            /\ Len(calls[k].result.value) = Cardinality(E)
            /\ (k < Len(calls) /\ IsCall(k + 1, "analyze_file") /\ Returned(k + 1)) =>
                  (calls[k + 1].result.value = <<>> <=> E = {})

C4_Witness ==
    /\ pc = "done"
    /\ \E k \in CallIndex :
          /\ IsCall(k, "find_undefined_names")
          /\ ContentAt(calls[k].arg).parses
          /\ calls[k].result.value # <<>>
    /\ \E k \in CallIndex :
          /\ IsCall(k, "find_undefined_names")
          /\ ContentAt(calls[k].arg).parses
          /\ id_name \in visit(ContentAt(calls[k].arg).tree).used
          /\ calls[k].result.value = <<>>

\* C5: a name bound by a function definition, a class definition, a simple
\* assignment to a direct name, an import (first path segment) or a
\* from-import (the imported symbol) is never reported as undefined.
RECURSIVE SpecBindings(_)
SpecBindings(node) ==
    (CASE node.kind \in {"FunctionDef", "ClassDef"} -> {node.name}
       [] node.kind = "Assign" ->
             {t.name : t \in {u \in Range(node.targets) : u.kind = "Name"}}
       [] node.kind = "Import" -> {SplitFirst(n.name, Dot) : n \in Range(node.names)}
       [] node.kind = "ImportFrom" -> {n.name : n \in Range(node.names)}
       [] OTHER -> {})
    \cup UNION {SpecBindings(c) : c \in Range(node.targets \o node.children)}

C5_BoundNamesNotReported ==
    \A k \in CallIndex :
        (IsCall(k, "find_undefined_names") /\ Returned(k) /\ ContentAt(calls[k].arg).parses) =>
            /\ SpecBindings(ContentAt(calls[k].arg).tree)
                  \subseteq visit(ContentAt(calls[k].arg).tree).defined
            /\ Range(calls[k].result.value) \cap SpecBindings(ContentAt(calls[k].arg).tree) = {}

\* C6: a file that compiles, imports a module in any form (aliased or not)
\* and reads no name other than built-ins and the names under which its
\* imports are visible has no diagnostic.
ImportedAs(a, plain) == IF a.asname # NoAsname THEN a.asname ELSE plain

RECURSIVE ImportNames(_)
ImportNames(node) ==
    (CASE node.kind = "Import" ->
             {ImportedAs(n, SplitFirst(n.name, Dot)) : n \in Range(node.names)}
       [] node.kind = "ImportFrom" -> {ImportedAs(n, n.name) : n \in Range(node.names)}
       [] OTHER -> {})
    \cup UNION {ImportNames(c) : c \in Range(node.targets \o node.children)}

C6_ImportsBind ==
    \A k \in CallIndex :
        (/\ IsCall(k, "analyze_file")
         /\ Returned(k)
         /\ ContentAt(calls[k].arg).compile = "ok"
         /\ ContentAt(calls[k].arg).parses
         /\ ImportNames(ContentAt(calls[k].arg).tree) # {}
         /\ visit(ContentAt(calls[k].arg).tree).used
               \subseteq RuntimeBuiltins \cup ImportNames(ContentAt(calls[k].arg).tree))
        => calls[k].result.value = <<>>

\* C7 as stated: with no matching file the scan ends normally and reports a
\* summary of zeros, through the same report as any other scan.
C7_ZeroSummary ==
    (pc = "done" /\ files = <<>>) =>
        /\ out # <<>>
        /\ out[1].what = "Summary"
        /\ out[1].file_count = 0
        /\ out[1].total_lines = 0
        /\ out[1].diagnostics = <<>>

\* C7 as amended: with no matching file main prints the no-files message
\* and returns normally right after discovery, without running any per-file
\* step and without printing a summary.
C7_NoFilesMessage ==
    (calls # <<>> /\ MatchingPaths = <<>>) =>
        /\ pc = "done"
        /\ out = <<NoFilesMessage>>
        /\ Len(calls) = 1
        /\ IsCall(1, "get_python_files")
        /\ calls[1].result.value = <<>>

C7_Witness ==
    /\ pc = "done"
    /\ files = <<>>
    /\ calls # <<>>
    /\ Len(WalkedPaths) >= 2

\* C8: no failure of a per-file step is fatal: no call raises out of
\* analyze_file and the scan never ends with an exception.
C8_NeverFatal ==
    /\ pc # "crashed"
    /\ \A k \in CallIndex : Returned(k)

\* C9: discovery runs once; the files are analyzed one by one in discovery
\* order, each at most once and, when the scan completes, exactly once, each
\* with the result its own content decides; the diagnostics are the results
\* in that order, so a diagnostic of an earlier file comes earlier.
FileIndex(p) == CHOOSE k \in 1..Len(files) : files[k] = p

SameDiagnostic(a, b) ==
    /\ a.file = b.file
    /\ a.line = b.line
    /\ a.message.text = b.message.text
    /\ Range(a.message.names) = Range(b.message.names)

SameReport(a, b) ==
    /\ a.what = b.what
    /\ a.what = "Summary" =>
          /\ a.file_count = b.file_count
          /\ a.total_lines = b.total_lines
          /\ Len(a.diagnostics) = Len(b.diagnostics)
          /\ \A k \in 1..Len(a.diagnostics) : SameDiagnostic(a.diagnostics[k], b.diagnostics[k])

C10_Idempotent ==
    (run > 1 /\ pc \in {"done", "crashed"}) =>
        /\ Len(out) = Len(prev)
        /\ prev # <<>> => SameReport(prev[1], out[1])

C10_Witness ==
    /\ run = 2
    /\ HasSummary
    /\ Len(out[1].diagnostics) = 2
    /\ \E k \in 1..2 : out[1].diagnostics[k].message.names # prev[1].diagnostics[k].message.names
    /\ \E d \in Dirs : pycache[d] # <<>>

====
